---- MODULE Spec2Model ----
(***************************************************************************)
(* Embedding store of the TLDW extension: the embeddings table with its    *)
(* constraints and row-level policies, the SECURITY DEFINER search         *)
(* functions of the embeddings migration, and the generate-embeddings and  *)
(* similarity-search edge functions.                                       *)
(*                                                                         *)
(* Vectors are short integer vectors (Dim components instead of 768), so   *)
(* that cosine similarity can be compared exactly: a similarity s is       *)
(* carried as the fraction sign(s)*s^2 = Ssq(a.b) / (|a|^2 |b|^2), which   *)
(* orders exactly as s does.  Vectors are non-zero: pgvector's <=> is the  *)
(* cosine distance only there.                                             *)
(***************************************************************************)
EXTENDS Integers, Sequences, FiniteSets, TLC

VARIABLES extractions, embeddings, now, nextId, lastCall, reqs, svc, batch,
          util, page

vars == <<extractions, embeddings, now, nextId, lastCall, reqs, svc, batch,
         util, page>>

(* ------------------------------ bounds --------------------------------- *)
\* the clock stops at MaxClock: MaxClock - 1 rows can be inserted in a run
MaxClock == 3

(* --------------------------- schema constants -------------------------- *)
\* vector(768), scaled down to Dim components
Dim == 2

\* find_duplicate_content: LIMIT 10
DuplicateLimit == 10

embedding_model ==
  {"text-embedding-004", "text-embedding-preview-0409",
   "textembedding-gecko@001", "textembedding-gecko@003"}

embedding_task_type ==
  {"RETRIEVAL_QUERY", "RETRIEVAL_DOCUMENT", "SEMANTIC_SIMILARITY",
   "CLASSIFICATION", "CLUSTERING"}

\* model DEFAULT 'text-embedding-004'
DefaultModel == "text-embedding-004"

\* const model = 'gemini-embedding-001' in both edge functions
GeminiModel == "gemini-embedding-001"

(* ------------------------------ input sets ----------------------------- *)
Users == {"A", "B"}
NoUser == "none"
ExtractionIds == {"X1", "X2", "X3"}
Contents == {"a", "bb"}
Vectors == {<<1, 0>>, <<0, 1>>, <<1, 1>>}
QueryVectors == {<<1, 0>>}
\* thresholds as fractions p/q
Thresholds == {[p |-> 0, q |-> 1], [p |-> 7, q |-> 10]}
MaxResultInputs == {1, 2}

(* ------------------------------- hashing ------------------------------- *)
\* crypto.subtle.digest('SHA-256', content) rendered as hex: distinct
\* contents have distinct digests
Sha256(c) == IF c = "a" THEN "ca97" ELSE IF c = "bb" THEN "3b64" ELSE "e3b0"

Hashes == {Sha256(c) : c \in Contents}

(* --------------------------- cosine similarity ------------------------- *)
RECURSIVE DotUpTo(_, _, _)
DotUpTo(a, b, n) == IF n = 0 THEN 0 ELSE a[n] * b[n] + DotUpTo(a, b, n - 1)

Dot(a, b) == DotUpTo(a, b, Len(a))

Ssq(x) == IF x >= 0 THEN x * x ELSE -(x * x)

\* 1 - (a <=> b), as the fraction sign(s)*s^2
Similarity(a, b) == [num |-> Ssq(Dot(a, b)), den |-> Dot(a, a) * Dot(b, b)]

\* a float threshold p/q in the same encoding
Enc(t) == [num |-> Ssq(t.p), den |-> t.q * t.q]

FracGE(x, y) == x.num * y.den >= y.num * x.den

FracGT(x, y) == x.num * y.den > y.num * x.den

FracEQ(x, y) == x.num * y.den = y.num * x.den

(* ------------------------------ SQL helpers ---------------------------- *)
\* all sequences that list every element of S once
Perms(S) ==
  {s \in [1..Cardinality(S) -> S] :
     \A i, j \in 1..Cardinality(S) : i # j => s[i] # s[j]}

\* LIMIT n
Limit(s, n) == IF Len(s) <= n THEN s ELSE SubSeq(s, 1, n)

Min(S) == CHOOSE x \in S : \A y \in S : x <= y

Max(S) == CHOOSE x \in S : \A y \in S : x >= y

RECURSIVE SumOver(_, _)
SumOver(S, f) ==
  IF S = {} THEN 0
  ELSE LET x == CHOOSE y \in S : TRUE IN f[x] + SumOver(S \ {x}, f)

ExtractionOf(emb) == CHOOSE ex \in extractions : ex.id = emb.extraction_id

\* JOIN public.extractions ex ON ex.id = emb.extraction_id
Joined(emb) == \E ex \in extractions : ex.id = emb.extraction_id

(* ------------------------- the embeddings table ------------------------ *)
\* CREATE TABLE public.embeddings: the columns the functions below read
EmbeddingRow(id, x, u, v, m, t, h, c, at) ==
  [id |-> id, extraction_id |-> x, user_id |-> u, embedding |-> v,
   model |-> m, task_type |-> t, content_hash |-> h, source_text |-> c,
   text_length |-> Len(c), created_at |-> at, updated_at |-> at]

\* a vector column without a dimension
VectorAcceptedAnyLength(v) == Len(v) >= 0

\* embedding vector(768) NOT NULL
VectorAccepted(v) == Len(v) = Dim

\* model embedding_model NOT NULL
ModelAccepted(m) == m \in embedding_model

\* UNIQUE(extraction_id, task_type), over the other rows of the table
KeyFree(row) ==
  \A o \in embeddings :
     o.id # row.id =>
       ~(o.extraction_id = row.extraction_id /\ o.task_type = row.task_type)

\* the row-level policies: auth.uid() = user_id; the service role (the edge
\* functions' client) bypasses them
ServiceRole == "service_role"

\* a table without row-level security
PolicyAllowsAnyone(uid, row) == TRUE

PolicyAllows(uid, row) == uid = ServiceRole \/ uid = row.user_id

\* what makes the store reject a row written by uid
Violations(uid, row) ==
  {k \in {"policy", "dimension", "model", "task_type", "unique", "extraction"} :
     \/ k = "policy" /\ ~PolicyAllows(uid, row)
     \/ k = "dimension" /\ ~VectorAccepted(row.embedding)
     \/ k = "model" /\ ~ModelAccepted(row.model)
     \/ k = "task_type" /\ row.task_type \notin embedding_task_type
     \/ k = "unique" /\ ~KeyFree(row)
     \/ k = "extraction" /\ ~Joined(row)}

(* -------------------------- find_similar_content ----------------------- *)
\* the WHERE clause without its owner filter
SimilarWhereAnyOwner(emb, query_embedding, similarity_threshold, target_user_id) ==
  FracGE(Similarity(emb.embedding, query_embedding), Enc(similarity_threshold))

\* the WHERE clause without its threshold filter
SimilarWhereNoThreshold(emb, query_embedding, similarity_threshold, target_user_id) ==
  emb.user_id = target_user_id

\* WHERE emb.user_id = target_user_id
\*   AND (1 - (emb.embedding <=> query_embedding)) >= similarity_threshold
SimilarWhere(emb, query_embedding, similarity_threshold, target_user_id) ==
  /\ emb.user_id = target_user_id
  /\ FracGE(Similarity(emb.embedding, query_embedding), Enc(similarity_threshold))

\* ORDER BY ... DESC: the farthest row first
SimilarOrderByFarthestFirst(a, b, query_embedding) ==
  FracGE(Similarity(b.embedding, query_embedding),
         Similarity(a.embedding, query_embedding))

\* ORDER BY emb.embedding <=> query_embedding, emb.created_at
SimilarOrderByThenCreatedAt(a, b, query_embedding) ==
  \/ FracGT(Similarity(a.embedding, query_embedding),
            Similarity(b.embedding, query_embedding))
  \/ /\ FracEQ(Similarity(a.embedding, query_embedding),
               Similarity(b.embedding, query_embedding))
     /\ a.created_at <= b.created_at

\* ORDER BY emb.embedding <=> query_embedding: a may stand before b
SimilarOrderBy(a, b, query_embedding) ==
  FracGE(Similarity(a.embedding, query_embedding),
         Similarity(b.embedding, query_embedding))

\* the SELECT list; emb_id names the embeddings row the result row was
\* computed from and is not a column of the result
SimilarRow(emb, query_embedding) ==
  [emb_id |-> emb.id,
   extraction_id |-> emb.extraction_id,
   similarity_score |-> Similarity(emb.embedding, query_embedding),
   title |-> ExtractionOf(emb).title,
   created_at |-> ExtractionOf(emb).created_at]

\* LIMIT max_results
SimilarLimit(s, max_results) == Limit(s, max_results)

\* every result the query can produce: rows that tie in the ORDER BY may
\* come in either order
find_similar_content(query_embedding, similarity_threshold, max_results, target_user_id) ==
  LET Q == {emb \in embeddings :
              /\ Joined(emb)
              /\ SimilarWhere(emb, query_embedding, similarity_threshold, target_user_id)}
      Sorted == {s \in Perms(Q) :
                   \A i, j \in 1..Len(s) :
                      i < j => SimilarOrderBy(s[i], s[j], query_embedding)}
  IN {SimilarLimit([i \in 1..Len(s) |-> SimilarRow(s[i], query_embedding)], max_results) :
        s \in Sorted}

(* ------------------------- find_duplicate_content ---------------------- *)
\* emb.content_hash = content_hash inside the LANGUAGE sql body: the
\* function's parameter content_hash has the name of a column of emb, and
\* in an SQL function a column name takes precedence over a parameter
\* name, so the right-hand side is emb.content_hash itself
HashMatches(emb, content_hash) == emb.content_hash = emb.content_hash

\* WHERE emb.user_id = target_user_id AND (hash match OR similarity >= threshold)
DuplicateWhere(emb, content_hash, query_embedding, similarity_threshold, target_user_id) ==
  /\ emb.user_id = target_user_id
  /\ \/ HashMatches(emb, content_hash)
     \/ FracGE(Similarity(emb.embedding, query_embedding), Enc(similarity_threshold))

\* ORDER BY (emb.content_hash = content_hash) DESC, emb.embedding <=> query_embedding
DuplicateOrderBy(a, b, content_hash, query_embedding) ==
  \/ HashMatches(a, content_hash) /\ ~HashMatches(b, content_hash)
  \/ /\ HashMatches(a, content_hash) = HashMatches(b, content_hash)
     /\ FracGE(Similarity(a.embedding, query_embedding),
               Similarity(b.embedding, query_embedding))

DuplicateRow(emb, content_hash, query_embedding) ==
  [emb_id |-> emb.id,
   extraction_id |-> emb.extraction_id,
   similarity_score |-> Similarity(emb.embedding, query_embedding),
   title |-> ExtractionOf(emb).title,
   is_exact_duplicate |-> HashMatches(emb, content_hash)]

find_duplicate_content(content_hash, query_embedding, similarity_threshold, target_user_id) ==
  LET Q == {emb \in embeddings :
              /\ Joined(emb)
              /\ DuplicateWhere(emb, content_hash, query_embedding,
                                similarity_threshold, target_user_id)}
      Sorted == {s \in Perms(Q) :
                   \A i, j \in 1..Len(s) :
                      i < j => DuplicateOrderBy(s[i], s[j], content_hash, query_embedding)}
  IN {Limit([i \in 1..Len(s) |-> DuplicateRow(s[i], content_hash, query_embedding)],
            DuplicateLimit) : s \in Sorted}

(* --------------------------- get_embedding_stats ----------------------- *)
\* FROM public.embeddings WHERE user_id = target_user_id
StatsWhere(emb, target_user_id) == emb.user_id = target_user_id

\* NULL aggregates (no row) are 0; AVG(text_length) is kept as sum and count
get_embedding_stats(target_user_id) ==
  LET R == {emb \in embeddings : StatsWhere(emb, target_user_id)}
  IN [total_embeddings |-> Cardinality(R),
      models_used |-> {emb.model : emb \in R},
      sum_text_length |-> SumOver({emb.id : emb \in R},
                                  [i \in {emb.id : emb \in R} |->
                                     (CHOOSE emb \in R : emb.id = i).text_length]),
      oldest_embedding |-> IF R = {} THEN 0 ELSE Min({emb.created_at : emb \in R}),
      newest_embedding |-> IF R = {} THEN 0 ELSE Max({emb.created_at : emb \in R})]

NoStats ==
  [total_embeddings |-> 0, models_used |-> {}, sum_text_length |-> 0,
   oldest_embedding |-> 0, newest_embedding |-> 0]

(* ------------------------------ calls ---------------------------------- *)
\* the last call answered: who called, with what, and the answer
Call(op, caller, target, q, thr, max, h, rows, stats) ==
  [op |-> op, caller |-> caller, target |-> target, query |-> q,
   threshold |-> thr, max_results |-> max, content_hash |-> h,
   rows |-> rows, stats |-> stats]

NoCall ==
  Call("none", NoUser, NoUser, <<>>, [p |-> 0, q |-> 1], 0, "", <<>>, NoStats)

(* -------------------- generate-embeddings requests --------------------- *)
\* the requests the edge function is serving, each at its own await
Requests == {1, 2}

Idle ==
  [pc |-> "idle", user |-> NoUser, extraction_id |-> "", content |-> "",
   task_type |-> "", check_duplicates |-> FALSE, duplicates |-> {},
   vector |-> <<>>, existing |-> 0, status |-> 0, embedding_id |-> 0,
   reasons |-> {}, failed |-> {}, sent |-> {}, error |-> ""]

\* what the embedding provider can answer with: vectors of the store's
\* dimension and one of another length
ProviderVectors == {<<1, 0>>, <<0, 1>>, <<1>>}

(* ------------------- the client of the store, one call at a time ------ *)
\* the call of EmbeddingService, of extractions.delete or of the
\* similarity-search endpoint that the client is in, and where it stands
SvcIdle ==
  [pc |-> "idle", op |-> "", user |-> NoUser, extraction_id |-> "",
   content |-> "", task_type |-> "", vector |-> <<>>, query |-> "",
   threshold |-> <<"absent">>,
   max_results |-> <<"absent">>, include_content |-> FALSE, k |-> 0,
   body |-> <<>>, rows |-> <<>>, affected |-> {}, enriched |-> FALSE,
   failed |-> {}, sent |-> {},
   status |-> 0, error |-> ""]

\* no call of EmbeddingUtils made
NoUtil == [op |-> "none", a |-> <<>>, b |-> <<>>, result |-> <<>>]

\* the messages the content script may be handling at once
Messages == {1, 2}

\* the page the content script runs in: no element of its own, nothing in
\* chrome.storage.local, no extraction under way
NoPage ==
  [url |-> "v1", loaders |-> 0, results |-> <<>>, notifications |-> {},
   lastExerciseResults |-> "none", lastVideoUrl |-> "none",
   calls |-> [m \in Messages |->
                [pc |-> "idle", url |-> "none", response |-> "none"]]]

\* batchEmbedAndStore not called
NoBatch == [pc |-> "idle", user |-> NoUser, items |-> <<>>, i |-> 0,
            calls |-> <<>>, outcome |-> <<>>, results |-> <<>>, slept |-> 0]

(* ------------------------------- Init ---------------------------------- *)
\* the extractions exist, created one after the other before the clock's
\* origin; no embedding is stored yet
Init ==
  /\ extractions =
       {[id |-> "X1", user_id |-> "A", title |-> "title of X1", created_at |-> -2],
        [id |-> "X2", user_id |-> "A", title |-> "title of X2", created_at |-> -1],
        [id |-> "X3", user_id |-> "B", title |-> "title of X3", created_at |-> 0]}
  /\ embeddings = {}
  /\ now = 1
  /\ nextId = 1
  /\ lastCall = NoCall
  /\ reqs = [i \in Requests |-> Idle]
  /\ svc = SvcIdle
  /\ batch = NoBatch
  /\ util = NoUtil
  /\ page = NoPage

(* ---------------- table access under the row-level policies ------------ *)
\* supabase.from('embeddings').insert(row) by an authenticated user; the
\* model column takes its default
TableInsert(uid, x, u, v, t, c) ==
  LET row == EmbeddingRow(nextId, x, u, v, DefaultModel, t, Sha256(c), c, now)
  IN /\ lastCall = NoCall
     /\ now < MaxClock
     /\ IF Violations(uid, row) = {}
          THEN /\ embeddings' = embeddings \cup {row}
               /\ nextId' = nextId + 1
               /\ now' = now + 1
          ELSE UNCHANGED <<embeddings, nextId, now>>
     /\ UNCHANGED <<extractions, lastCall, reqs, svc, batch, util, page>>

\* deleteEmbedding: .delete().eq('extraction_id', extractionId), which the
\* delete policy restricts to the caller's rows
deleteEmbedding(uid, extractionId) ==
  /\ lastCall = NoCall
  /\ embeddings' =
       {emb \in embeddings :
          ~(emb.extraction_id = extractionId /\ PolicyAllows(uid, emb))}
  /\ UNCHANGED <<extractions, now, nextId, lastCall, reqs, svc, batch, util, page>>

(* ------------------------- calls of the functions ---------------------- *)
\* A call is answered from the tables as they are at that moment: lastCall
\* holds the answer while it is handed to the caller, and the tables are
\* those the answer was computed from until Respond has delivered it.
Respond ==
  /\ lastCall # NoCall
  /\ lastCall' = NoCall
  /\ UNCHANGED <<extractions, embeddings, now, nextId, reqs, svc, batch, util, page>>

\* rpc('find_similar_content', ...) by an authenticated user, who chooses
\* every argument, target_user_id included (GRANT EXECUTE ... TO authenticated)
RpcFindSimilar(caller, q, thr, max, target) ==
  /\ lastCall = NoCall
  /\ \E rows \in find_similar_content(q, thr, max, target) :
       lastCall' = Call("find_similar_content", caller, target, q, thr, max, "",
                        rows, NoStats)
  /\ UNCHANGED <<extractions, embeddings, now, nextId, reqs, svc, batch, util, page>>

RpcFindDuplicates(caller, h, q, thr, target) ==
  /\ lastCall = NoCall
  /\ \E rows \in find_duplicate_content(h, q, thr, target) :
       lastCall' = Call("find_duplicate_content", caller, target, q, thr, 0, h,
                        rows, NoStats)
  /\ UNCHANGED <<extractions, embeddings, now, nextId, reqs, svc, batch, util, page>>

RpcStats(caller, target) ==
  /\ lastCall = NoCall
  /\ lastCall' = Call("get_embedding_stats", caller, target, <<>>,
                      [p |-> 0, q |-> 1], 0, "", <<>>, get_embedding_stats(target))
  /\ UNCHANGED <<extractions, embeddings, now, nextId, reqs, svc, batch, util, page>>

Next ==
  \/ \E uid \in Users, x \in ExtractionIds, u \in Users, v \in Vectors,
        c \in Contents : TableInsert(uid, x, u, v, "SEMANTIC_SIMILARITY", c)
  \/ \E uid \in Users, x \in ExtractionIds : deleteEmbedding(uid, x)
  \/ \E caller \in Users, q \in QueryVectors, thr \in Thresholds,
        max \in MaxResultInputs, target \in Users :
        RpcFindSimilar(caller, q, thr, max, target)
  \/ \E caller \in Users, h \in Hashes, q \in QueryVectors, thr \in Thresholds,
        target \in Users : RpcFindDuplicates(caller, h, q, thr, target)
  \/ \E caller \in Users, target \in Users : RpcStats(caller, target)
  \/ Respond

Spec == Init /\ [][Next]_vars

(* ------------------- the generate-embeddings edge function ------------- *)
\* One action per await of the handler.  The handler's Supabase client
\* holds the service-role key, so the row-level policies do not apply to it.

\* an ownership check that looks at the id only
OwnedByAnyone(user, extraction_id) ==
  \E ex \in extractions : ex.id = extraction_id

\* .from('extractions').eq('id', extraction_id).eq('user_id', user.id).single()
Owned(user, extraction_id) ==
  \E ex \in extractions : ex.id = extraction_id /\ ex.user_id = user

\* a provider failure answered as a success
EmbedFailedUnnoticed(r, status, message) ==
  [r EXCEPT !.pc = "done", !.status = 200]

\* the provider's failure ends the call: the catch rethrows it (the service)
\* or wraps it for the 500 answer (the edge functions)
EmbedFailed(r, status, message) ==
  [r EXCEPT !.pc = "done", !.status = status, !.error = message]

\* request parsing, validation, authentication and the ownership check
GenBegin(i, user, extraction_id, content, task_type, check_duplicates) ==
  LET r == [Idle EXCEPT !.user = user, !.extraction_id = extraction_id,
                        !.content = content, !.task_type = task_type,
                        !.check_duplicates = check_duplicates]
      owned == Owned(user, extraction_id)
      answer ==
        IF extraction_id = "" \/ content = ""
          THEN [r EXCEPT !.pc = "done", !.status = 400,
                         !.error = "extraction_id and content are required"]
        ELSE IF user = NoUser
          THEN [r EXCEPT !.pc = "done", !.status = 401,
                         !.error = "Invalid or expired token"]
        ELSE IF ~owned
          THEN [r EXCEPT !.pc = "done", !.status = 404,
                         !.error = "Extraction not found or access denied"]
        ELSE IF check_duplicates
          THEN [r EXCEPT !.pc = "duplicates"]
        ELSE [r EXCEPT !.pc = "embed"]
  IN /\ reqs[i].pc = "idle"
     /\ reqs' = [reqs EXCEPT ![i] = answer]
     /\ UNCHANGED <<extractions, embeddings, now, nextId, lastCall, svc, batch, util, page>>

\* the duplicate check: rows of the caller with the content's hash; the
\* error of the query is not looked at (ok = FALSE: no duplicates)
GenDuplicates(i, ok) ==
  LET r == reqs[i]
      found == {emb \in embeddings :
                  /\ emb.user_id = r.user
                  /\ emb.content_hash = Sha256(r.content)
                  /\ Joined(emb)}
  IN /\ r.pc = "duplicates"
     /\ reqs' = [reqs EXCEPT
                  ![i].pc = "embed",
                  ![i].duplicates = IF ok THEN {emb.id : emb \in found} ELSE {},
                  ![i].failed = IF ok THEN r.failed ELSE r.failed \cup {"duplicates"}]
     /\ UNCHANGED <<extractions, embeddings, now, nextId, lastCall, svc, batch, util, page>>

\* embeddingModel.embedContent: a vector, or a failure (ok = FALSE) that the
\* inner catch rethrows and the outer catch answers with 500
GenEmbed(i, ok, v) ==
  LET r == reqs[i]
  IN /\ r.pc = "embed"
     /\ reqs' = [reqs EXCEPT ![i] =
                   IF ok
                     THEN [r EXCEPT !.pc = "lookup", !.vector = v]
                     ELSE EmbedFailed(r, 500, "Failed to generate embedding: provider")]
     /\ UNCHANGED <<extractions, embeddings, now, nextId, lastCall, svc, batch, util, page>>

\* .select('id').eq('extraction_id', ...).eq('task_type', ...).single():
\* the id of the row with the request's key, 0 when there is none; the error
\* of the query is not looked at (ok = FALSE: no row)
GenLookup(i, ok) ==
  LET r == reqs[i]
      found == {emb \in embeddings :
                  emb.extraction_id = r.extraction_id /\ emb.task_type = r.task_type}
  IN /\ r.pc = "lookup"
     /\ reqs' = [reqs EXCEPT
                  ![i].pc = "write",
                  ![i].existing =
                    IF found = {} \/ ~ok THEN 0
                    ELSE (CHOOSE emb \in found : TRUE).id,
                  ![i].failed = IF ok THEN r.failed ELSE r.failed \cup {"lookup"}]
     /\ UNCHANGED <<extractions, embeddings, now, nextId, lastCall, svc, batch, util, page>>

\* what a write statement says of the content a row stands for
Payload(row) ==
  [embedding |-> row.embedding, content_hash |-> row.content_hash,
   source_text |-> row.source_text, text_length |-> row.text_length]

\* an update of the vector and the text that leaves the hash as it was
UpdatedRowKeepsHash(old, r) ==
  [old EXCEPT !.embedding = r.vector,
              !.source_text = r.content, !.text_length = Len(r.content),
              !.model = GeminiModel, !.task_type = r.task_type,
              !.updated_at = now]

\* the row the update branch writes over old
UpdatedRow(old, r) ==
  [old EXCEPT !.embedding = r.vector, !.content_hash = Sha256(r.content),
              !.source_text = r.content, !.text_length = Len(r.content),
              !.model = GeminiModel, !.task_type = r.task_type,
              !.updated_at = now]

\* the row the insert branch writes
InsertedRow(r) ==
  EmbeddingRow(nextId, r.extraction_id, r.user, r.vector, GeminiModel,
               r.task_type, Sha256(r.content), r.content, now)

\* the update (by the id found) or the insert, and the response
GenWrite(i) ==
  LET r == reqs[i]
      target == {emb \in embeddings : emb.id = r.existing}
      row == IF r.existing = 0 THEN InsertedRow(r)
             ELSE IF target = {} THEN InsertedRow(r)
             ELSE UpdatedRow(CHOOSE emb \in target : TRUE, r)
      why == IF r.existing # 0 /\ target = {} THEN {"no row"}
             ELSE Violations(ServiceRole, row)
      sent == IF r.existing # 0 /\ target = {} THEN {} ELSE {Payload(row)}
  IN /\ r.pc = "write"
     /\ IF why = {}
          THEN /\ embeddings' = (embeddings \ target) \cup {row}
               /\ nextId' = IF r.existing = 0 THEN nextId + 1 ELSE nextId
               /\ now' = IF now < MaxClock THEN now + 1 ELSE now
               /\ reqs' = [reqs EXCEPT ![i].pc = "done", ![i].status = 200,
                                       ![i].embedding_id = row.id,
                                       ![i].sent = sent]
          ELSE /\ UNCHANGED <<embeddings, nextId, now>>
               /\ reqs' = [reqs EXCEPT
                    ![i].pc = "done", ![i].status = 500, ![i].reasons = why,
                    ![i].sent = sent,
                    ![i].error =
                      IF r.existing # 0
                        THEN "Failed to generate embedding: Failed to update embedding"
                        ELSE "Failed to generate embedding: Failed to store embedding"]
     /\ UNCHANGED <<extractions, lastCall, svc, batch, util, page>>

NextPut ==
  \/ \E uid \in Users :
        TableInsert(uid, "X1", uid, <<1, 1>>, "SEMANTIC_SIMILARITY", "a")
  \/ \E uid \in Users : deleteEmbedding(uid, "X1")
  \/ \E i \in Requests, user \in Users \cup {NoUser}, x \in {"X1", ""},
        c \in Contents, cd \in BOOLEAN :
        GenBegin(i, user, x, c, "SEMANTIC_SIMILARITY", cd)
  \/ \E i \in Requests, ok \in BOOLEAN : GenDuplicates(i, ok)
  \/ \E i \in Requests, ok \in BOOLEAN, v \in ProviderVectors : GenEmbed(i, ok, v)
  \/ \E i \in Requests, ok \in BOOLEAN : GenLookup(i, ok)
  \/ \E i \in Requests : GenWrite(i)

SpecPut == Init /\ [][NextPut]_vars

(* ------------------------- EmbeddingService ---------------------------- *)
\* The extension's client holds the session of an authenticated user, so
\* every statement of the service runs under the row-level policies.  The
\* client makes one call at a time; other clients' statements (TableInsert,
\* deleteEmbedding) come between the awaits of a call.

\* where each call starts
FirstStep(op) ==
  CASE op = "embedAndStore" -> "embed"
    [] op = "updateEmbedding" -> "get"
    [] op = "deleteEmbedding" -> "delete"
    [] op = "extractions.delete" -> "deleteExtraction"
    [] op = "clusterEmbeddings" -> "cluster"

\* a call of the service by user; taskType takes its default
SvcBegin(op, user, extractionId, content, numClusters) ==
  /\ svc.pc = "idle"
  /\ svc' = [SvcIdle EXCEPT !.pc = FirstStep(op), !.op = op, !.user = user,
                            !.extraction_id = extractionId, !.content = content,
                            !.task_type = "SEMANTIC_SIMILARITY", !.k = numClusters]
  /\ UNCHANGED <<extractions, embeddings, now, nextId, lastCall, reqs, batch, util, page>>

\* the step that follows generateEmbedding in each call
AfterEmbed(op) ==
  CASE op = "embedAndStore" -> "store"
    [] op = "updateEmbedding" -> "update"
    [] op = "similarity-search" -> "rpc"

\* generateEmbedding: the provider's vector, or its failure rethrown
SvcGenerate(ok, v) ==
  /\ svc.pc = "embed"
  /\ svc' = IF ok
              THEN [svc EXCEPT !.pc = AfterEmbed(svc.op), !.vector = v]
              ELSE EmbedFailed(svc, IF svc.op = "similarity-search" THEN 500 ELSE -1,
                               "Failed to generate embedding")
  /\ UNCHANGED <<extractions, embeddings, now, nextId, lastCall, reqs, batch, util, page>>

\* the row storeEmbedding inserts: no user_id (NULL), the constant model
StoredRow(r) ==
  EmbeddingRow(nextId, r.extraction_id, NoUser, r.vector, GeminiModel,
               r.task_type, Sha256(r.content), r.content, now)

\* storeEmbedding: .insert({...}).select('id').single()
SvcStore ==
  LET row == StoredRow(svc)
      why == Violations(svc.user, row)
  IN /\ svc.pc = "store"
     /\ IF why = {}
          THEN /\ embeddings' = embeddings \cup {row}
               /\ nextId' = nextId + 1
               /\ now' = IF now < MaxClock THEN now + 1 ELSE now
               /\ svc' = [svc EXCEPT !.pc = "done", !.status = 1,
                                     !.affected = {row.id},
                                     !.sent = {Payload(row)}]
          ELSE /\ UNCHANGED <<embeddings, nextId, now>>
               /\ svc' = [svc EXCEPT !.pc = "done", !.status = -1,
                                     !.sent = {Payload(row)},
                                     !.error = "Failed to store embedding"]
     /\ UNCHANGED <<extractions, lastCall, reqs, batch, util, page>>

\* the rows of embeddings_with_metadata (security_invoker) the user sees for
\* an extraction: the user's rows, joined to an extraction the user may see
ViewRows(user, extractionId) ==
  {emb \in embeddings :
     /\ emb.extraction_id = extractionId
     /\ PolicyAllows(user, emb)
     /\ \E ex \in extractions : ex.id = emb.extraction_id /\ ex.user_id = user}

\* getEmbeddingByExtraction inside updateEmbedding: .single() answers
\* PGRST116 unless there is exactly one row, which is read as "not found"
SvcGetExisting ==
  /\ svc.pc = "get"
  /\ svc' = IF Cardinality(ViewRows(svc.user, svc.extraction_id)) = 1
              THEN [svc EXCEPT !.pc = "embed"]
              ELSE [svc EXCEPT !.pc = "done", !.status = -1,
                               !.error = "Embedding not found"]
  /\ UNCHANGED <<extractions, embeddings, now, nextId, lastCall, reqs, batch, util, page>>

\* updateEmbedding: .update({...}).eq('extraction_id', extractionId), on the
\* rows the update policy lets the user reach
SvcUpdate ==
  LET target == {emb \in embeddings :
                   emb.extraction_id = svc.extraction_id /\ PolicyAllows(svc.user, emb)}
      written == {UpdatedRow(emb, svc) : emb \in target}
      why == UNION {Violations(svc.user, row) : row \in written}
  IN /\ svc.pc = "update"
     /\ IF why = {}
          THEN /\ embeddings' = (embeddings \ target) \cup written
               /\ now' = IF now < MaxClock /\ target # {} THEN now + 1 ELSE now
               /\ svc' = [svc EXCEPT !.pc = "done", !.status = 1,
                                     !.affected = {emb.id : emb \in target},
                                     !.sent = {Payload(row) : row \in written}]
          ELSE /\ UNCHANGED <<embeddings, now>>
               /\ svc' = [svc EXCEPT !.pc = "done", !.status = -1,
                                     !.sent = {Payload(row) : row \in written},
                                     !.error = "Failed to update embedding"]
     /\ UNCHANGED <<extractions, nextId, lastCall, reqs, batch, util, page>>

\* deleteEmbedding as a call of the client: the delete policy restricts the
\* statement to the caller's rows; the rows removed are noted in affected
SvcDelete ==
  LET target == {emb \in embeddings :
                   emb.extraction_id = svc.extraction_id /\ PolicyAllows(svc.user, emb)}
  IN /\ svc.pc = "delete"
     /\ embeddings' = embeddings \ target
     /\ svc' = [svc EXCEPT !.pc = "done", !.status = 1,
                           !.affected = {emb.id : emb \in target}]
     /\ UNCHANGED <<extractions, now, nextId, lastCall, reqs, batch, util, page>>

\* a foreign key without ON DELETE CASCADE would leave the rows in place
CascadeNone(ids) == {}

\* extraction_id ... REFERENCES public.extractions(id) ON DELETE CASCADE:
\* the embeddings that go with the extractions ids, whoever owns them
Cascade(ids) == {emb \in embeddings : emb.extraction_id \in ids}

\* extractions.delete(id): .from('extractions').delete().eq('id', id), which
\* the delete policy of extractions restricts to the caller's extractions
SvcDeleteExtraction ==
  LET target == {ex \in extractions :
                   ex.id = svc.extraction_id /\ ex.user_id = svc.user}
      gone == Cascade({ex.id : ex \in target})
  IN /\ svc.pc = "deleteExtraction"
     /\ extractions' = extractions \ target
     /\ embeddings' = embeddings \ gone
     /\ svc' = [svc EXCEPT !.pc = "done", !.status = 1,
                           !.affected = {emb.id : emb \in gone}]
     /\ UNCHANGED <<now, nextId, lastCall, reqs, batch, util, page>>

(* ---------------------------- cluster_embeddings ----------------------- *)
\* random_centroids: num_clusters of the owner's rows in random order,
\* numbered from 1 (fewer when the owner has fewer rows)
RandomCentroids(num_clusters, target_user_id) ==
  LET R == {emb \in embeddings : emb.user_id = target_user_id}
      m == IF Cardinality(R) <= num_clusters THEN Cardinality(R) ELSE num_clusters
  IN {c \in [1..m -> R] : \A i, j \in 1..m : i # j => c[i] # c[j]}

\* ORDER BY emb.embedding <=> rc.centroid LIMIT 1: i may be the cluster of emb
Nearest(emb, c, i) ==
  \A j \in 1..Len(c) :
     FracGE(Similarity(emb.embedding, c[i].embedding),
            Similarity(emb.embedding, c[j].embedding))

\* the SELECT list; the distance is carried as the similarity 1 - distance
ClusterRow(emb, c, i) ==
  [emb_id |-> emb.id, extraction_id |-> emb.extraction_id, cluster_id |-> i,
   centroid_similarity |-> Similarity(emb.embedding, c[i].embedding),
   title |-> ExtractionOf(emb).title]

\* ORDER BY a.cluster_id, distance_to_centroid
ClusterOrderBy(a, b) ==
  \/ a.cluster_id < b.cluster_id
  \/ /\ a.cluster_id = b.cluster_id
     /\ FracGE(a.centroid_similarity, b.centroid_similarity)

\* every result the function can produce; a row without a centroid has a
\* NULL cluster_id and drops out of the final join
cluster_embeddings(num_clusters, target_user_id) ==
  LET J == {emb \in embeddings : Joined(emb) /\ emb.user_id = target_user_id}
      Results(c) ==
        IF Len(c) = 0 THEN {<<>>}
        ELSE LET A == {f \in [J -> 1..Len(c)] : \A emb \in J : Nearest(emb, c, f[emb])}
             IN UNION {{s \in Perms({ClusterRow(emb, c, f[emb]) : emb \in J}) :
                          \A i, j \in 1..Len(s) : i < j => ClusterOrderBy(s[i], s[j])}
                       : f \in A}
  IN UNION {Results(c) : c \in RandomCentroids(num_clusters, target_user_id)}

\* clusterEmbeddings: rpc('cluster_embeddings', {num_clusters}); target_user_id
\* takes its default auth.uid()
SvcCluster ==
  /\ svc.pc = "cluster"
  /\ \E rows \in cluster_embeddings(svc.k, svc.user) :
        svc' = [svc EXCEPT !.pc = "done", !.status = 1, !.rows = rows]
  /\ UNCHANGED <<extractions, embeddings, now, nextId, lastCall, reqs, batch, util, page>>

(* ------------------- the similarity-search edge function --------------- *)
\* Values of the JSON body as JavaScript sees them: <<"absent">> (undefined),
\* <<"null">>, <<"num", p, q>> (the number p/q, q > 0) and <<"str", chars>>.
Absent == <<"absent">>

Null == <<"null">>

Num(p, q) == <<"num", p, q>>

Str(chars) == <<"str", chars>>

\* a destructuring default applies to undefined only
Default(v, d) == IF v = Absent THEN d ELSE v

\* ToNumber of a number or of null
ToNumber(v) == IF v = Null THEN Num(0, 1) ELSE v

\* a < b on numbers and null
JsLess(a, b) == ToNumber(a)[2] * ToNumber(b)[3] < ToNumber(b)[2] * ToNumber(a)[3]

RECURSIVE TrimStart(_)
TrimStart(chars) ==
  IF chars # <<>> /\ Head(chars) = " " THEN TrimStart(Tail(chars)) ELSE chars

RECURSIVE TrimEnd(_)
TrimEnd(chars) ==
  IF chars # <<>> /\ chars[Len(chars)] = " "
    THEN TrimEnd(SubSeq(chars, 1, Len(chars) - 1)) ELSE chars

\* String.prototype.trim
Trim(chars) == TrimEnd(TrimStart(chars))

\* !query || query.trim().length === 0
QueryMissing(query) == query = Absent \/ Len(query[2]) = 0 \/ Len(Trim(query[2])) = 0

\* similarity_threshold < 0 || similarity_threshold > 1
ThresholdRejected(t) == JsLess(t, Num(0, 1)) \/ JsLess(Num(1, 1), t)

\* max_results < 1 || max_results > 50
MaxResultsRejected(m) == JsLess(m, Num(1, 1)) \/ JsLess(Num(50, 1), m)

\* a request: parsing with the defaults, the three validations, then the
\* authentication
SearchBegin(user, query, similarity_threshold, max_results, include_content) ==
  LET t == Default(similarity_threshold, Num(7, 10))
      m == Default(max_results, Num(10, 1))
      r == [SvcIdle EXCEPT !.op = "similarity-search", !.user = user,
                           !.query = query, !.threshold = t, !.max_results = m,
                           !.include_content = include_content,
                           !.body = <<similarity_threshold, max_results>>]
  IN /\ svc.pc = "idle"
     /\ svc' =
          IF QueryMissing(query)
            THEN [r EXCEPT !.pc = "done", !.status = 400,
                           !.error = "Query text is required"]
          ELSE IF ThresholdRejected(t)
            THEN [r EXCEPT !.pc = "done", !.status = 400,
                           !.error = "similarity_threshold must be between 0 and 1"]
          ELSE IF MaxResultsRejected(m)
            THEN [r EXCEPT !.pc = "done", !.status = 400,
                           !.error = "max_results must be between 1 and 50"]
          ELSE IF user = NoUser
            THEN [r EXCEPT !.pc = "done", !.status = 401,
                           !.error = "Invalid or expired token"]
          ELSE [r EXCEPT !.pc = "embed"]
     /\ UNCHANGED <<extractions, embeddings, now, nextId, lastCall, reqs, batch, util, page>>

\* what the store makes of the arguments of the rpc: a query vector of
\* another length than vector(768) and a max_results that is no integer are
\* refused (the call answers an error)
RpcArgumentsAccepted(v, t, m) ==
  /\ VectorAccepted(v)
  /\ m[1] = "num" /\ m[2] % m[3] = 0

\* rpc('find_similar_content', {query_embedding, similarity_threshold,
\* max_results, target_user_id: user.id}); ok = FALSE is a failure of the
\* call.  A null threshold is an SQL NULL: the comparison with it is not true
\* for any row.
SearchRpc(ok) ==
  /\ svc.pc = "rpc"
  /\ IF ~ok \/ ~RpcArgumentsAccepted(svc.vector, svc.threshold, svc.max_results)
       THEN svc' = [svc EXCEPT !.pc = "done", !.status = 500,
                               !.error = "Similarity search failed"]
     ELSE IF svc.threshold = Null
       THEN svc' = [svc EXCEPT !.pc = "enrich", !.rows = <<>>]
     ELSE \E rows \in find_similar_content(
                        svc.vector,
                        [p |-> svc.threshold[2], q |-> svc.threshold[3]],
                        svc.max_results[2] \div svc.max_results[3], svc.user) :
            svc' = [svc EXCEPT !.pc = "enrich", !.rows = rows]
  /\ UNCHANGED <<extractions, embeddings, now, nextId, lastCall, reqs, batch, util, page>>

\* the enrichment with the extractions' content when include_content is set
\* and there are results; the error of that query is not looked at
\* (ok = FALSE: the results stay as they are), and the answer is 200
SearchEnrich(ok) ==
  /\ svc.pc = "enrich"
  /\ svc' = IF svc.include_content /\ Len(svc.rows) > 0
              THEN IF ok
                     THEN [svc EXCEPT !.pc = "done", !.status = 200, !.enriched = TRUE]
                     ELSE [svc EXCEPT !.pc = "done", !.status = 200,
                                      !.failed = {"enrichment"}]
              ELSE [svc EXCEPT !.pc = "done", !.status = 200]
  /\ UNCHANGED <<extractions, embeddings, now, nextId, lastCall, reqs, batch, util, page>>

\* the call has returned or thrown: the client is free for its next call
SvcReturn ==
  /\ svc.pc = "done"
  /\ svc' = SvcIdle
  /\ UNCHANGED <<extractions, embeddings, now, nextId, lastCall, reqs, batch, util, page>>

(* ------------------ one client, one call after the other --------------- *)
\* the response of generate-embeddings has reached the client
GenReturn(i) ==
  /\ reqs[i].pc = "done"
  /\ reqs' = [reqs EXCEPT ![i] = Idle]
  /\ UNCHANGED <<extractions, embeddings, now, nextId, lastCall, svc, batch, util, page>>

\* the client is in no call
ClientFree == svc.pc = "idle" /\ reqs[1].pc = "idle"

OpsVectors == {<<1, 0>>, <<0, 1>>}

ClusterInputs == {2, 3}

OpsTasks == {"SEMANTIC_SIMILARITY", "RETRIEVAL_DOCUMENT"}

\* A client that calls the service, extractions.delete and the two endpoints
\* one after the other, while other users write to the table between its
\* awaits.
NextOps ==
  \/ \E uid \in Users, x \in {"X1", "X3"}, v \in OpsVectors, t \in OpsTasks :
        TableInsert(uid, x, uid, v, t, "a")
  \/ \E uid \in Users : deleteEmbedding(uid, "X1")
  \/ \E user \in Users \cup {NoUser}, x \in {"X1", ""}, c \in Contents \cup {""},
        cd \in BOOLEAN :
        ClientFree /\ GenBegin(1, user, x, c, "SEMANTIC_SIMILARITY", cd)
  \/ \E ok \in BOOLEAN : GenDuplicates(1, ok)
  \/ \E ok \in BOOLEAN, v \in ProviderVectors : GenEmbed(1, ok, v)
  \/ \E ok \in BOOLEAN : GenLookup(1, ok)
  \/ GenWrite(1)
  \/ GenReturn(1)
  \/ \E user \in Users, c \in Contents :
        ClientFree /\ SvcBegin("embedAndStore", user, "X1", c, 0)
  \/ \E user \in Users, c \in Contents :
        ClientFree /\ SvcBegin("updateEmbedding", user, "X1", c, 0)
  \/ \E user \in Users :
        ClientFree /\ SvcBegin("deleteEmbedding", user, "X1", "", 0)
  \/ \E user \in Users :
        ClientFree /\ SvcBegin("extractions.delete", user, "X1", "", 0)
  \/ \E user \in Users, k \in ClusterInputs :
        ClientFree /\ SvcBegin("clusterEmbeddings", user, "", "", k)
  \/ \E user \in Users, include_content \in BOOLEAN :
        ClientFree /\ SearchBegin(user, Str(<<"c", "a", "t">>), Num(0, 1), Absent,
                                  include_content)
  \/ \E ok \in BOOLEAN, v \in ProviderVectors : SvcGenerate(ok, v)
  \/ SvcStore
  \/ SvcGetExisting
  \/ SvcUpdate
  \/ SvcDelete
  \/ SvcDeleteExtraction
  \/ SvcCluster
  \/ \E ok \in BOOLEAN : SearchRpc(ok)
  \/ \E ok \in BOOLEAN : SearchEnrich(ok)
  \/ SvcReturn

SpecOps == Init /\ [][NextOps]_vars

(* --------------------- requests to similarity-search -------------------- *)
SearchQueries == {Absent, Str(<<>>), Str(<<" ", " ">>), Str(<<"c", "a", "t">>)}

ThresholdInputs ==
  {Absent, Null, Num(-1, 10), Num(0, 1), Num(7, 10), Num(1, 1), Num(11, 10)}

MaxResultsInputs ==
  {Absent, Null, Num(0, 1), Num(1, 1), Num(5, 2), Num(50, 1), Num(51, 1)}

\* requests with any body, while the owner's records come into the store
NextSearch ==
  \/ \E x \in {"X1", "X2"}, v \in OpsVectors :
        TableInsert("A", x, "A", v, "SEMANTIC_SIMILARITY", "a")
  \/ \E user \in Users \cup {NoUser}, query \in SearchQueries,
        t \in ThresholdInputs, m \in MaxResultsInputs, include_content \in BOOLEAN :
        SearchBegin(user, query, t, m, include_content)
  \/ \E ok \in BOOLEAN, v \in ProviderVectors : SvcGenerate(ok, v)
  \/ \E ok \in BOOLEAN : SearchRpc(ok)
  \/ \E ok \in BOOLEAN : SearchEnrich(ok)
  \/ SvcReturn

SpecSearch == Init /\ [][NextSearch]_vars

(* ------------------------- batchEmbedAndStore -------------------------- *)
batchSize == 5

\* items.slice(i, i + batchSize), i counted from 0
Slice(items, i) == SubSeq(items, i + 1, Min({i + batchSize, Len(items)}))

\* batch.map(async (item) => ...): every call of the chunk runs up to its
\* first await, the provider's answer
StartCalls(user, chunk) ==
  [j \in 1..Len(chunk) |->
     [pc |-> "embed", user |-> user, extraction_id |-> chunk[j].extractionId,
      content |-> chunk[j].content, task_type |-> "SEMANTIC_SIMILARITY",
      vector |-> <<>>, success |-> FALSE, embeddingId |-> 0, error |-> ""]]

\* the loop goes on to a next chunk after the one at i
LoopAlways(i, n) == TRUE

MoreChunks(i, n) == i + batchSize < n

\* the value a call's promise is fulfilled with
ItemResult(call) ==
  [extractionId |-> call.extraction_id, embeddingId |-> call.embeddingId,
   success |-> call.success, error |-> call.error]

\* batchResults.forEach((result, index) => results.push(...)), kept for the
\* successful calls only
SuccessesOnly(calls) ==
  LET ok == SelectSeq(calls, LAMBDA c : c.success)
  IN [j \in 1..Len(ok) |-> ItemResult(ok[j])]

\* batchResults.forEach((result, index) => results.push(...))
Collected(calls) == [j \in 1..Len(calls) |-> ItemResult(calls[j])]

\* the calls that have not settled
InFlight == {j \in DOMAIN batch.calls : batch.calls[j].pc # "settled"}

\* batchEmbedAndStore(items) up to its first await
BatchBegin(user, items) ==
  /\ batch.pc = "idle"
  /\ batch' = IF Len(items) > 0
                THEN [NoBatch EXCEPT !.pc = "await", !.user = user,
                                     !.items = items,
                                     !.calls = StartCalls(user, Slice(items, 0)),
                                     !.outcome = [k \in 1..Len(items) |-> "none"]]
                ELSE [NoBatch EXCEPT !.pc = "done", !.user = user]
  /\ UNCHANGED <<extractions, embeddings, now, nextId, lastCall, reqs, svc, util, page>>

\* a call's generateEmbedding answers: embedAndStore goes on to
\* storeEmbedding, or the error is caught and becomes the call's value
BatchEmbed(j, ok, v) ==
  /\ batch.pc = "await"
  /\ j \in DOMAIN batch.calls
  /\ batch.calls[j].pc = "embed"
  /\ batch' = IF ok
                THEN [batch EXCEPT !.calls[j].pc = "store", !.calls[j].vector = v]
                ELSE [batch EXCEPT !.calls[j].pc = "settled",
                                   !.calls[j].error = "Failed to generate embedding",
                                   !.outcome[batch.i + j] = "failed"]
  /\ UNCHANGED <<extractions, embeddings, now, nextId, lastCall, reqs, svc, util, page>>

\* a call's storeEmbedding answers
BatchStore(j) ==
  /\ batch.pc = "await"
  /\ j \in DOMAIN batch.calls
  /\ batch.calls[j].pc = "store"
  /\ LET row == StoredRow(batch.calls[j])
         why == Violations(batch.user, row)
     IN IF why = {}
          THEN /\ embeddings' = embeddings \cup {row}
               /\ nextId' = nextId + 1
               /\ now' = IF now < MaxClock THEN now + 1 ELSE now
               /\ batch' = [batch EXCEPT !.calls[j].pc = "settled",
                                         !.calls[j].success = TRUE,
                                         !.calls[j].embeddingId = row.id,
                                         !.outcome[batch.i + j] = "stored"]
          ELSE /\ UNCHANGED <<embeddings, nextId, now>>
               /\ batch' = [batch EXCEPT !.calls[j].pc = "settled",
                                         !.calls[j].error = "Failed to store embedding",
                                         !.outcome[batch.i + j] = "failed"]
  /\ UNCHANGED <<extractions, lastCall, reqs, svc, util, page>>

\* Promise.allSettled answers: the chunk's results are pushed; the timer is
\* set if more chunks follow, else the loop ends
BatchCollect ==
  /\ batch.pc = "await"
  /\ InFlight = {}
  /\ LET results == batch.results \o Collected(batch.calls)
     IN batch' = IF MoreChunks(batch.i, Len(batch.items))
                   THEN [batch EXCEPT !.pc = "cooldown", !.results = results,
                                      !.calls = <<>>]
                   ELSE [batch EXCEPT !.pc = "done", !.results = results,
                                      !.calls = <<>>, !.i = batch.i + batchSize]
  /\ UNCHANGED <<extractions, embeddings, now, nextId, lastCall, reqs, svc, util, page>>

\* the timer fires: i += batchSize, and if i < items.length the next chunk
BatchCooldown ==
  /\ batch.pc = "cooldown"
  /\ LET i == batch.i + batchSize
     IN batch' = IF i < Len(batch.items)
                   THEN [batch EXCEPT !.pc = "await", !.i = i,
                                      !.slept = batch.slept + 1,
                                      !.calls = StartCalls(batch.user,
                                                           Slice(batch.items, i))]
                   ELSE [batch EXCEPT !.pc = "done", !.i = i,
                                      !.slept = batch.slept + 1]
  /\ UNCHANGED <<extractions, embeddings, now, nextId, lastCall, reqs, svc, util, page>>

\* return results
BatchReturn ==
  /\ batch.pc = "done"
  /\ batch' = NoBatch
  /\ UNCHANGED <<extractions, embeddings, now, nextId, lastCall, reqs, svc, util, page>>

BatchLengths == {0, 1, 4, 5, 6, 10}

\* n items, of two extractions in turn
Items(n) ==
  [k \in 1..n |-> [extractionId |-> IF k % 2 = 1 THEN "X1" ELSE "X3",
                   content |-> "a"]]

NextBatch ==
  \/ \E user \in Users, n \in BatchLengths : BatchBegin(user, Items(n))
  \/ \E j \in 1..batchSize, ok \in BOOLEAN : BatchEmbed(j, ok, <<1, 0>>)
  \/ \E j \in 1..batchSize : BatchStore(j)
  \/ BatchCollect
  \/ BatchCooldown
  \/ BatchReturn

SpecBatch == Init /\ [][NextBatch]_vars

(* --------------------------- EmbeddingUtils ---------------------------- *)
\* the numbers of JavaScript this model needs: a quotient whose divisor is
\* sqrt(normA) * sqrt(normB), NaN, an infinity, or no value but an exception
NaN == <<"NaN">>

Infinity(sign) == <<"Infinity", sign>>

Quotient(dotProduct, normA, normB) == <<"num", dotProduct, normA, normB>>

Thrown(message) == <<"throw", message>>

\* for (let i = 0; i < a.length; i++) { dotProduct += ...; normA += ...; normB += ... }
RECURSIVE CosineLoop(_, _, _, _)
CosineLoop(a, b, i, acc) ==
  IF i > Len(a) THEN acc
  ELSE CosineLoop(a, b, i + 1,
                  [dotProduct |-> acc.dotProduct + a[i] * b[i],
                   normA |-> acc.normA + a[i] * a[i],
                   normB |-> acc.normB + b[i] * b[i]])

\* dotProduct / (Math.sqrt(normA) * Math.sqrt(normB)) in IEEE 754: 0 / 0 is
\* NaN and x / 0 is an infinity
JsDivide(acc) ==
  IF acc.normA * acc.normB # 0
    THEN Quotient(acc.dotProduct, acc.normA, acc.normB)
  ELSE IF acc.dotProduct = 0 THEN NaN
  ELSE Infinity(IF acc.dotProduct > 0 THEN 1 ELSE -1)

cosineSimilarity(a, b) ==
  IF Len(a) # Len(b) THEN Thrown("Embeddings must have the same length")
  ELSE JsDivide(CosineLoop(a, b, 1, [dotProduct |-> 0, normA |-> 0, normB |-> 0]))

\* EmbeddingUtils.cosineSimilarity(a, b) called
UtilCosine(a, b) ==
  /\ util.op = "none"
  /\ util' = [op |-> "cosineSimilarity", a |-> a, b |-> b,
              result |-> cosineSimilarity(a, b)]
  /\ UNCHANGED <<extractions, embeddings, now, nextId, lastCall, reqs, svc, batch, page>>

\* the caller has the result
UtilReturn ==
  /\ util.op # "none"
  /\ util' = NoUtil
  /\ UNCHANGED <<extractions, embeddings, now, nextId, lastCall, reqs, svc, batch, page>>

Components == {-1, 0, 1, 2}

UtilVectors == UNION {[1..n -> Components] : n \in 0..2}

NextUtil ==
  \/ \E a \in UtilVectors, b \in UtilVectors : UtilCosine(a, b)
  \/ UtilReturn

SpecUtil == Init /\ [][NextUtil]_vars

(* --------------------------- the content script ------------------------ *)
\* The page holds the elements the script has added to document.body: the
\* number of elements with id tldw-loading-indicator, the results containers
\* in document order, and the notifications on screen (by their message; a
\* notification is removed by its timer).

\* getElementById(id)?.remove() on n elements with that id
RemoveOne(n) == IF n > 0 THEN n - 1 ELSE 0

showLoadingIndicator(p) == [p EXCEPT !.loaders = RemoveOne(p.loaders) + 1]

hideLoadingIndicator(p) == [p EXCEPT !.loaders = RemoveOne(p.loaders)]

showNotification(p, message) ==
  [p EXCEPT !.notifications = p.notifications \cup {message}]

\* the existing container, if any, is removed and a collapsed one appended
displayExerciseResults(p, exercises) ==
  [p EXCEPT !.results =
     Append(IF p.results = <<>> THEN <<>> ELSE Tail(p.results),
            [exercises |-> exercises, isExpanded |-> FALSE])]

\* onMessage 'greet'
ContentGreet ==
  /\ page' = showNotification(page, "Extension says")
  /\ UNCHANGED <<extractions, embeddings, now, nextId, lastCall, reqs, svc, batch, util>>

\* onMessage 'extractExercises': getVideoInfo, then extractExercisesFromVideo
\* up to its await of model.generateContent
ExtractBegin(m) ==
  /\ page.calls[m].pc = "idle"
  /\ page' = [showNotification(showLoadingIndicator(page),
                               "Analyzing video for exercises...")
                EXCEPT !.calls[m].pc = "generating", !.calls[m].url = page.url]
  /\ UNCHANGED <<extractions, embeddings, now, nextId, lastCall, reqs, svc, batch, util>>

\* generateContent answers: with exercises that are stored, shown and sent
\* back, or with a failure (of the call or of JSON.parse) that is caught
ExtractEnd(m, ok, exercises) ==
  /\ page.calls[m].pc = "generating"
  /\ page' =
       IF ok
         THEN [showNotification(
                 displayExerciseResults(hideLoadingIndicator(page), exercises),
                 "Exercise analysis complete!")
                 EXCEPT !.lastExerciseResults = exercises,
                        !.lastVideoUrl = page.calls[m].url,
                        !.calls[m].pc = "responded",
                        !.calls[m].response = "success"]
         ELSE [showNotification(hideLoadingIndicator(page),
                                "Error analyzing video. Please check your API key.")
                 EXCEPT !.calls[m].pc = "responded",
                        !.calls[m].response = "error"]
  /\ UNCHANGED <<extractions, embeddings, now, nextId, lastCall, reqs, svc, batch, util>>

\* the sender has the response; the channel is closed
ExtractResponded(m) ==
  /\ page.calls[m].pc = "responded"
  /\ page' = [page EXCEPT !.calls[m] = NoPage.calls[m]]
  /\ UNCHANGED <<extractions, embeddings, now, nextId, lastCall, reqs, svc, batch, util>>

\* onMessage 'showLastResults'
ShowLastResults ==
  /\ page' = IF page.lastExerciseResults # "none" /\ page.lastVideoUrl = page.url
               THEN displayExerciseResults(page, page.lastExerciseResults)
               ELSE showNotification(page, "No exercise results found for this video")
  /\ UNCHANGED <<extractions, embeddings, now, nextId, lastCall, reqs, svc, batch, util>>

\* click on tldw-toggle-results
ToggleResults ==
  /\ page.results # <<>>
  /\ page' = [page EXCEPT !.results[1].isExpanded = ~page.results[1].isExpanded]
  /\ UNCHANGED <<extractions, embeddings, now, nextId, lastCall, reqs, svc, batch, util>>

\* click on tldw-close-results
CloseResults ==
  /\ page.results # <<>>
  /\ page' = [page EXCEPT !.results = Tail(page.results)]
  /\ UNCHANGED <<extractions, embeddings, now, nextId, lastCall, reqs, svc, batch, util>>

\* setTimeout(() => notification.remove(), 5000)
NotificationTimeout(message) ==
  /\ message \in page.notifications
  /\ page' = [page EXCEPT !.notifications = page.notifications \ {message}]
  /\ UNCHANGED <<extractions, embeddings, now, nextId, lastCall, reqs, svc, batch, util>>

\* the user goes on to another video; the script stays loaded
Navigate(url) ==
  /\ url # page.url
  /\ page' = [page EXCEPT !.url = url]
  /\ UNCHANGED <<extractions, embeddings, now, nextId, lastCall, reqs, svc, batch, util>>

\* what the model may answer: an empty list or a list of exercises
ExerciseLists == {"no exercise", "squats"}

VideoUrls == {"v1", "v2"}

NotificationMessages ==
  {"Extension says", "Analyzing video for exercises...",
   "Exercise analysis complete!",
   "Error analyzing video. Please check your API key.",
   "No exercise results found for this video"}

NextContent ==
  \/ ContentGreet
  \/ \E m \in Messages : ExtractBegin(m)
  \/ \E m \in Messages, ok \in BOOLEAN, exercises \in ExerciseLists :
        ExtractEnd(m, ok, exercises)
  \/ \E m \in Messages : ExtractResponded(m)
  \/ ShowLastResults
  \/ ToggleResults
  \/ CloseResults
  \/ \E message \in NotificationMessages : NotificationTimeout(message)
  \/ \E url \in VideoUrls : Navigate(url)

SpecContent == Init /\ [][NextContent]_vars

(* ======================= properties: the functions ===================== *)
\* the embeddings row a result row was computed from (the tables are those
\* of the call while lastCall holds its answer)
RowOf(res) == CHOOSE emb \in embeddings : emb.id = res.emb_id

IsFind == lastCall.op \in {"find_similar_content", "find_duplicate_content"}

IsSimilar == lastCall.op = "find_similar_content"

IsDuplicates == lastCall.op = "find_duplicate_content"

Answer == lastCall.rows

ScoreOf(emb) == Similarity(emb.embedding, lastCall.query)

\* the rows of owner u that reach the call's threshold
Qualifying(u) ==
  {emb \in embeddings :
     emb.user_id = u /\ Joined(emb) /\ FracGE(ScoreOf(emb), Enc(lastCall.threshold))}

\* C1: no answer given to a caller holds data of an embedding or of an
\* extraction that another owner owns: every row of a find answer comes from
\* an embedding and an extraction of the caller, and the statistics answered
\* are those of the caller's own rows.
C1_NoForeignData ==
  /\ IsFind =>
       \A k \in 1..Len(Answer) :
          /\ RowOf(Answer[k]).user_id = lastCall.caller
          /\ ExtractionOf(RowOf(Answer[k])).user_id = lastCall.caller
  /\ lastCall.op = "get_embedding_stats" =>
       lastCall.stats = get_embedding_stats(lastCall.caller)

\* C2: findSimilar, findDuplicates and stats called for owner A answer from
\* A's records only: every row returned is a record of A, and the statistics
\* count and aggregate exactly A's records, whatever B has stored.
C2_OwnerScoped ==
  LET mine == {emb \in embeddings : emb.user_id = lastCall.target}
  IN /\ IsFind => \A k \in 1..Len(Answer) : RowOf(Answer[k]) \in mine
     /\ lastCall.op = "get_embedding_stats" =>
          /\ lastCall.stats.total_embeddings = Cardinality(mine)
          /\ lastCall.stats.models_used = {emb.model : emb \in mine}
          /\ mine # {} =>
               /\ \E emb \in mine : emb.created_at = lastCall.stats.oldest_embedding
               /\ \E emb \in mine : emb.created_at = lastCall.stats.newest_embedding
               /\ \A emb \in mine :
                    /\ lastCall.stats.oldest_embedding <= emb.created_at
                    /\ emb.created_at <= lastCall.stats.newest_embedding
          /\ lastCall.stats.sum_text_length =
               SumOver({emb.id : emb \in mine},
                       [i \in {emb.id : emb \in mine} |->
                          Len((CHOOSE emb \in mine : emb.id = i).source_text)])

\* C2 witness: A searched, got a row, and B holds a row that reaches the
\* threshold too
C2_Witness ==
  /\ IsSimilar
  /\ lastCall.caller = "A" /\ lastCall.target = "A"
  /\ Len(Answer) >= 1
  /\ Qualifying("B") # {}

\* C5: findDuplicates returns every record of the owner whose stored hash is
\* the hash asked for, whatever its similarity, flags it exact, puts every
\* such record before every record that is no exact match, and orders each
\* of the two groups by ascending cosine distance.
C5_ExactFirst ==
  IsDuplicates =>
    LET exact(k) == RowOf(Answer[k]).content_hash = lastCall.content_hash
    IN /\ \A emb \in embeddings :
            (/\ emb.user_id = lastCall.target
             /\ Joined(emb)
             /\ emb.content_hash = lastCall.content_hash
             /\ Cardinality(embeddings) <= DuplicateLimit)
            => \E k \in 1..Len(Answer) :
                  Answer[k].emb_id = emb.id /\ Answer[k].is_exact_duplicate
       /\ \A i, j \in 1..Len(Answer) :
            /\ (exact(j) /\ ~exact(i)) => j < i
            /\ (i < j /\ exact(i) = exact(j)) =>
                 FracGE(Answer[i].similarity_score, Answer[j].similarity_score)

\* C6: in the answer of findDuplicates a row is flagged is_exact_duplicate
\* exactly when the stored hash of its record is the hash asked for.
C6_FlagIffHashEqual ==
  IsDuplicates =>
    \A k \in 1..Len(Answer) :
       Answer[k].is_exact_duplicate
         <=> (RowOf(Answer[k]).content_hash = lastCall.content_hash)

\* C7: findSimilar never returns a record whose similarity to the query
\* vector is strictly below the threshold.
C7_NoneBelowThreshold ==
  IsSimilar =>
    \A k \in 1..Len(Answer) :
       /\ ~FracGT(Enc(lastCall.threshold), ScoreOf(RowOf(Answer[k])))
       /\ FracEQ(Answer[k].similarity_score, ScoreOf(RowOf(Answer[k])))

\* C7 witness: a search that returned a row and left out a record of the
\* owner because it is below the threshold
C7_Witness ==
  /\ IsSimilar
  /\ Len(Answer) >= 1
  /\ \E emb \in embeddings :
        /\ emb.user_id = lastCall.target
        /\ FracGT(Enc(lastCall.threshold), ScoreOf(emb))

C9_TieByCreatedAt ==
  IsSimilar =>
    \A i, j \in 1..Len(Answer) :
       (i < j /\ FracEQ(Answer[i].similarity_score, Answer[j].similarity_score))
         => \/ RowOf(Answer[i]).created_at <= RowOf(Answer[j]).created_at
            \/ Answer[i].created_at <= Answer[j].created_at

\* C9 amended: the answer is ordered by similarity alone; two neighbours with
\* the same score may come in either order, whatever their createdAt: the
\* answer with the two exchanged is an answer of the same call as well.
C9_TieOrderFree ==
  IsSimilar =>
    \A i \in 1..Len(Answer) :
       (i < Len(Answer)
          /\ FracEQ(Answer[i].similarity_score, Answer[i + 1].similarity_score))
       => [Answer EXCEPT ![i] = Answer[i + 1], ![i + 1] = Answer[i]]
            \in find_similar_content(lastCall.query, lastCall.threshold,
                                     lastCall.max_results, lastCall.target)

\* C9 witness: an answer in which the later of two records with the same
\* score comes first, by the record's created_at and by the row's
C9_Witness ==
  /\ IsSimilar
  /\ \E i \in 1..Len(Answer) :
        /\ i < Len(Answer)
        /\ FracEQ(Answer[i].similarity_score, Answer[i + 1].similarity_score)
        /\ RowOf(Answer[i]).created_at > RowOf(Answer[i + 1]).created_at
        /\ Answer[i].created_at > Answer[i + 1].created_at

(* ================== properties: generate-embeddings ==================== *)
SameKey(emb, r) ==
  emb.extraction_id = r.extraction_id /\ emb.task_type = r.task_type

HoldsContentOf(emb, r) ==
  /\ emb.embedding = r.vector
  /\ emb.content_hash = Sha256(r.content)
  /\ emb.source_text = r.content

\* a request that got as far as its write with a vector of the store's dimension
WroteValid(r) ==
  r.pc = "done" /\ r.error \in
    {"", "Failed to generate embedding: Failed to update embedding",
     "Failed to generate embedding: Failed to store embedding"}
  /\ Len(r.vector) = Dim

\* C3: after a put there is at most one record for its (sourceRefId,
\* taskType), and a put that finds a record for its key updates that record
\* in place: the record keeps its id and holds the put's vector, hash and text.
C3_UpsertInPlace ==
  [][\A i \in Requests :
       (reqs[i].pc = "write" /\ reqs'[i].pc = "done" /\ Len(reqs[i].vector) = Dim)
       => /\ Cardinality({emb \in embeddings' : SameKey(emb, reqs[i])}) <= 1
          /\ \A emb \in embeddings :
               SameKey(emb, reqs[i]) =>
                 \E upd \in embeddings' :
                    upd.id = emb.id /\ HoldsContentOf(upd, reqs[i])]_vars

\* C4: when two puts for the same key have both finished, and the records
\* of the key are theirs, the store holds exactly one record for the key and
\* it holds the vector, hash and text of one of the two puts.
C4_TwoPutsOneRecord ==
  (/\ \A i \in Requests : WroteValid(reqs[i])
   /\ \A i, j \in Requests :
        /\ reqs[i].user = reqs[j].user
        /\ reqs[i].extraction_id = reqs[j].extraction_id
        /\ reqs[i].task_type = reqs[j].task_type
   /\ \A emb \in embeddings :
        SameKey(emb, reqs[1]) => \E i \in Requests : emb.id = reqs[i].embedding_id)
  => /\ Cardinality({emb \in embeddings : SameKey(emb, reqs[1])}) = 1
     /\ \E emb \in embeddings, i \in Requests :
           SameKey(emb, reqs[1]) /\ HoldsContentOf(emb, reqs[i])

Untimed(emb) == [emb EXCEPT !.created_at = 0, !.updated_at = 0]

\* the store holds what a put of r's key, vector and content leaves
AlreadyPut(r) ==
  \E emb \in embeddings : SameKey(emb, r) /\ HoldsContentOf(emb, r)

\* C11: a put repeated with the same sourceRefId, taskType, content and
\* vector, that is a put on a store that already holds its record, succeeds
\* and leaves the records as they are but for their timestamps, through the
\* generate-embeddings endpoint and through embedAndStore.
C11_PutIdempotent ==
  [][/\ (reqs[1].pc = "write" /\ reqs'[1].pc = "done" /\ AlreadyPut(reqs[1]))
        => /\ reqs'[1].status = 200
           /\ {Untimed(emb) : emb \in embeddings'} = {Untimed(emb) : emb \in embeddings}
     /\ (svc.pc = "store" /\ svc'.pc = "done" /\ AlreadyPut(svc))
        => /\ svc'.status = 1
           /\ {Untimed(emb) : emb \in embeddings'} = {Untimed(emb) : emb \in embeddings}
    ]_vars

\* the client's call has not written yet: it is before or at its provider call
BeforeWrite ==
  \/ reqs[1].pc \in {"duplicates", "embed"}
  \/ svc.pc \in {"get", "embed"}

\* C12: when the provider call fails during a put (generate-embeddings,
\* embedAndStore), updateEmbedding or a similarity search, the call ends there
\* with an error, and no step of the call up to and including the failure
\* has inserted, updated or deleted a record.
C12_ProviderFailureNoWrite ==
  [][/\ (reqs[1].pc = "embed" /\ reqs'[1].pc = "done")
        => /\ reqs'[1].status = 500
           /\ reqs'[1].embedding_id = 0
           /\ reqs'[1].error # ""
     /\ (svc.pc = "embed" /\ svc'.pc = "done")
        => /\ svc'.status = IF svc.op = "similarity-search" THEN 500 ELSE -1
           /\ svc'.error # ""
           /\ svc'.affected = {}
     /\ (BeforeWrite /\ (reqs' # reqs \/ svc' # svc))
        => /\ embeddings' = embeddings
           /\ extractions' = extractions
    ]_vars

\* C12 witness: updateEmbedding found its record, the provider failed, and
\* the call has ended with the record in the store
C12_Witness ==
  /\ svc.op = "updateEmbedding"
  /\ svc.pc = "done"
  /\ svc.status = -1
  /\ svc.error = "Failed to generate embedding"
  /\ ViewRows(svc.user, svc.extraction_id) # {}

\* C15: clusterEmbeddings(k) for an owner with fewer than k records fails
\* and returns no cluster assignment.
C15_InsufficientData ==
  [][(/\ svc.pc = "cluster" /\ svc'.pc = "done"
      /\ Cardinality({emb \in embeddings : emb.user_id = svc.user}) < svc.k)
     => /\ svc'.status = -1
        /\ svc'.error # ""
        /\ svc'.rows = <<>>]_vars

\* C16: generate-embeddings answers 400 when extraction_id or content is
\* missing, else 401 when the credential is missing or invalid, else 404 when
\* extraction_id names no extraction of the caller, and in no other case;
\* such a request ends at once: no vector is generated for it, it writes no
\* record, and nothing follows it but its response.
C16_RejectedRequests ==
  [][/\ (reqs[1].pc = "idle" /\ reqs'[1].pc # "idle")
        => LET r == reqs'[1]
               missing == r.extraction_id = "" \/ r.content = ""
               mine == \E ex \in extractions :
                          ex.id = r.extraction_id /\ ex.user_id = r.user
           IN /\ r.status = IF missing THEN 400
                            ELSE IF r.user = NoUser THEN 401
                            ELSE IF ~mine THEN 404
                            ELSE 0
              /\ r.status # 0
                 => /\ r.pc = "done"
                    /\ r.vector = <<>>
                    /\ r.embedding_id = 0
                    /\ embeddings' = embeddings
     /\ (reqs[1].status \in {400, 401, 404} /\ reqs'[1] # reqs[1])
        => /\ reqs'[1] = Idle
           /\ embeddings' = embeddings
    ]_vars

\* C16 witness: a user asked for an embedding of an extraction that has one
\* and is not the user's, and got 404
C16_Witness ==
  /\ reqs[1].pc = "done"
  /\ reqs[1].status = 404
  /\ reqs[1].user \in Users
  /\ \E emb \in embeddings : emb.extraction_id = reqs[1].extraction_id

\* C18: deleteEmbedding(extractionId) by an owner removes exactly the
\* owner's records of that extraction, leaves every other record and the
\* extractions as they are, and succeeds, also when it removes nothing.
C18_DeleteFrame ==
  [][(svc.pc = "delete" /\ svc'.pc = "done")
     => /\ embeddings' =
             {emb \in embeddings :
                ~(emb.extraction_id = svc.extraction_id /\ emb.user_id = svc.user)}
        /\ extractions' = extractions
        /\ svc'.status = 1]_vars

\* C18 witness: a delete that removed the owner's record of the extraction
\* and left another owner's record of the same extraction
C18_Witness ==
  /\ svc.op = "deleteEmbedding"
  /\ svc.pc = "done"
  /\ svc.affected # {}
  /\ \E emb \in embeddings :
        emb.extraction_id = svc.extraction_id /\ emb.user_id # svc.user

\* C19: every embedding record references an extraction that exists.
C19_NoOrphan ==
  \A emb \in embeddings : \E ex \in extractions : ex.id = emb.extraction_id

\* C19 witness: an extraction was deleted and embedding records went with it
C19_Witness ==
  /\ svc.op = "extractions.delete"
  /\ svc.pc = "done"
  /\ svc.affected # {}
  /\ ~\E ex \in extractions : ex.id = svc.extraction_id

\* C20: when the duplicate lookup or the existing-record lookup of
\* generate-embeddings fails, or the enrichment of similarity-search fails,
\* the request ends there and the caller gets an error.
C20_FailuresSurface ==
  /\ reqs[1].failed # {} => (reqs[1].pc = "done" /\ reqs[1].status = 500)
  /\ svc.failed # {} => (svc.pc = "done" /\ svc.status = 500)

(* =================== properties: similarity-search ==================== *)
\* the query is empty or blank
Blank(query) == query = Absent \/ \A k \in 1..Len(query[2]) : query[2][k] = " "

\* v is the number lo, the number hi or a number between them
Within(v, lo, hi) ==
  /\ v[1] = "num"
  /\ lo * v[3] <= v[2]
  /\ v[2] <= hi * v[3]

\* v is a number and lies outside lo..hi
Outside(v, lo, hi) == v[1] = "num" /\ ~Within(v, lo, hi)

\* C17: similarity-search answers 400, with no vector generated and no query
\* of the store, when the query is empty or blank, the threshold lies outside
\* [0, 1] or max_results lies outside 1..50, and only when the query is blank
\* or one of the two is no number of its range; an omitted threshold is
\* 0.7 and an omitted max_results is 10; and a request that goes on to
\* find_similar_content passes a threshold in [0, 1] and an integer
\* max_results in 1..50.
C17_Validation ==
  svc.op = "similarity-search" =>
    /\ (Blank(svc.query) \/ Outside(svc.threshold, 0, 1)
                          \/ Outside(svc.max_results, 1, 50))
         => svc.status = 400
    /\ svc.status = 400
         => \/ Blank(svc.query)
            \/ ~Within(svc.threshold, 0, 1)
            \/ ~Within(svc.max_results, 1, 50)
    /\ svc.status = 400 => (svc.pc = "done" /\ svc.vector = <<>> /\ svc.rows = <<>>)
    /\ svc.body[1] = Absent => svc.threshold = Num(7, 10)
    /\ svc.body[2] = Absent => svc.max_results = Num(10, 1)
    /\ svc.pc = "rpc"
         => /\ Within(svc.threshold, 0, 1)
            /\ Within(svc.max_results, 1, 50)
            /\ svc.max_results[2] % svc.max_results[3] = 0

(* =================== properties: batchEmbedAndStore =================== *)
\* C13: what batchEmbedAndStore returns has one result per item, in the
\* items' order; every item's own call was made and settled, whatever became
\* of the others; a result is a success carrying the stored record's id
\* exactly when the item's own call stored a record, and otherwise a failure
\* carrying no id and the call's error.
C13_OneResultPerItem ==
  batch.pc = "done" =>
    /\ Len(batch.results) = Len(batch.items)
    /\ \A k \in 1..Len(batch.items) :
         /\ batch.outcome[k] # "none"
         /\ batch.results[k].extractionId = batch.items[k].extractionId
         /\ batch.results[k].success <=> batch.outcome[k] = "stored"
         /\ batch.results[k].success
              => \E emb \in embeddings :
                   /\ emb.id = batch.results[k].embeddingId
                   /\ emb.extraction_id = batch.items[k].extractionId
         /\ ~batch.results[k].success
              => /\ batch.results[k].embeddingId = 0
                 /\ batch.results[k].error # ""

\* two chunks were processed and reported although the first item's
\* embedding failed and a sibling of it got as far as the store
C13_Witness ==
  /\ batch.pc = "done"
  /\ Len(batch.items) = 6
  /\ Len(batch.results) = 6
  /\ batch.results[1].error = "Failed to generate embedding"
  /\ batch.results[2].error = "Failed to store embedding"
  /\ batch.results[6].error = "Failed to store embedding"

\* C14: never more than 5 calls are in flight; a chunk after the first starts
\* only when every call of the chunk before has settled and been reported and
\* the cooldown that followed it has elapsed; a cooldown is begun only while
\* items remain, so none follows the last chunk.
C14_BoundedParallelism ==
  [][ /\ Cardinality(InFlight') <= 5
      /\ (batch'.pc = "await" /\ batch'.i # batch.i)
           => /\ batch.pc = "cooldown"
              /\ InFlight = {}
              /\ Len(batch.results) = batch'.i
              /\ batch'.slept = batch.slept + 1
      /\ batch'.pc = "cooldown" => Len(batch'.results) < Len(batch'.items)
      /\ batch'.pc = "done"
           => batch'.slept = IF Len(batch'.items) = 0 THEN 0
                             ELSE (Len(batch'.items) - 1) \div 5
    ]_vars

\* five calls of the second chunk are in flight after one cooldown
C14_Witness ==
  /\ batch.pc = "await"
  /\ batch.i = 5
  /\ batch.slept = 1
  /\ Cardinality(InFlight) = 5

(* ===================== properties: storage failures =================== *)
\* the message s begins with p
StartsWith(s, p) == Len(s) >= Len(p) /\ SubSeq(s, 1, Len(p)) = p

\* C21: when the store rejects the write of a generate-and-store request, the
\* error the caller gets names a storage failure: it is not reported as a
\* failure to generate the embedding.
C21_StorageErrorSurfaced ==
  \A i \in Requests :
     (reqs[i].pc = "done" /\ reqs[i].reasons # {})
        => ~StartsWith(reqs[i].error, "Failed to generate embedding")

(* ===================== properties: EmbeddingUtils ===================== *)
\* every component of x is 0
AllZero(x) == \A k \in 1..Len(x) : x[k] = 0

\* C22: cosineSimilarity of two vectors of equal length of which one is all
\* zero is the number 0: no exception, no NaN, no infinity.
C22_ZeroVectorIsZero ==
  (/\ util.op = "cosineSimilarity"
   /\ Len(util.a) = Len(util.b)
   /\ AllZero(util.a) \/ AllZero(util.b))
    => util.result[1] = "num" /\ util.result[2] = 0

(* ===================== properties: record ownership =================== *)
\* C23: every embedding record belongs to the user who owns the extraction
\* it references.
C23_OwnerOfExtraction ==
  \A emb \in embeddings :
     \A ex \in extractions :
        ex.id = emb.extraction_id => emb.user_id = ex.user_id

(* ===================== properties: concurrent puts ==================== *)
\* another request for the key of request i is under way or has just ended
Concurrent(i) ==
  \E j \in Requests :
     /\ j # i
     /\ reqs[j].pc \notin {"idle"}
     /\ reqs[j].status \notin {400, 401, 404}
     /\ reqs[j].extraction_id = reqs[i].extraction_id
     /\ reqs[j].task_type = reqs[i].task_type

\* C24: of the concurrent generate-and-store requests for one key, each one
\* whose caller owns the extraction and whose vector was generated ends its
\* write with success.
C24_ConcurrentPutsSucceed ==
  [][\A i \in Requests :
       (/\ reqs[i].pc = "write"
        /\ reqs'[i].pc = "done"
        /\ Len(reqs[i].vector) = Dim
        /\ Owned(reqs[i].user, reqs[i].extraction_id)
        /\ Concurrent(i))
       => reqs'[i].status = 200]_vars

(* ==================== properties: duplicate detection ================= *)
\* C25: every row find_duplicate_content answers comes from a record of the
\* owner whose stored hash is the hash asked for or whose similarity to the
\* query vector reaches the threshold.
C25_OnlyMatchingRecords ==
  IsDuplicates =>
    \A k \in 1..Len(Answer) :
       LET emb == RowOf(Answer[k])
       IN /\ emb.user_id = lastCall.target
          /\ \/ emb.content_hash = lastCall.content_hash
             \/ FracGE(ScoreOf(emb), Enc(lastCall.threshold))

(* ===================== properties: one content per record ============= *)
\* the hash and the length in p are those of p's text
OfOneContent(p) ==
  /\ p.content_hash = Sha256(p.source_text)
  /\ p.text_length = Len(p.source_text)

\* C26: the content fields of every stored record, and of every row a write
\* of generate-and-store, storeEmbedding or updateEmbedding sends to the
\* store, describe one content: the hash and the length are those of the
\* text, and a row sent holds the call's text and the vector generated for it.
C26_FieldsOfOneContent ==
  /\ \A emb \in embeddings : OfOneContent(emb)
  /\ \A i \in Requests :
       \A p \in reqs[i].sent :
          /\ OfOneContent(p)
          /\ p.source_text = reqs[i].content
          /\ p.embedding = reqs[i].vector
  /\ \A p \in svc.sent :
       /\ OfOneContent(p)
       /\ p.source_text = svc.content
       /\ p.embedding = svc.vector

\* updateEmbedding has sent its update of a record that holds another content
C26_Witness ==
  /\ svc.op = "updateEmbedding"
  /\ svc.sent # {}
  /\ \E emb \in embeddings :
       /\ emb.extraction_id = svc.extraction_id
       /\ emb.user_id = svc.user
       /\ emb.source_text # svc.content

(* ===================== properties: updateEmbedding ==================== *)
\* the caller's records of the call's extraction
OfExtraction == {emb \in embeddings :
                   emb.extraction_id = svc.extraction_id /\ emb.user_id = svc.user}

\* C27: updateEmbedding(extractionId, newContent, taskType) by the owner of
\* the extraction fails with
\* 'Embedding not found', writing nothing, exactly when the extraction has no
\* embedding; otherwise it goes on, and its update succeeds and changes no
\* record but the one keyed (extractionId, taskType).
C27_UpdateFrame ==
  [][(/\ svc.op = "updateEmbedding"
      /\ Owned(svc.user, svc.extraction_id)
      /\ svc' # svc) =>
       /\ svc.pc = "get" =>
            /\ (svc'.error = "Embedding not found") <=> (OfExtraction = {})
            /\ embeddings' = embeddings
       /\ svc.pc = "update" =>
            /\ OfExtraction # {} => svc'.status = 1
            /\ \A emb \in embeddings :
                 ~(emb.extraction_id = svc.extraction_id
                   /\ emb.task_type = svc.task_type)
                 => emb \in embeddings']_vars

(* ===================== properties: the model column =================== *)
\* C28: no write of a generate-and-store request is rejected by the store
\* because of the value it writes to the model column.
C28_ModelValueAccepted ==
  /\ \A i \in Requests : "model" \notin reqs[i].reasons
  /\ \A i \in Requests : \A emb \in embeddings :
       emb.id = reqs[i].embedding_id => emb.model \in embedding_model

InProgress == {m \in Messages : page.calls[m].pc = "generating"}

\* C30: the page holds the loading indicator exactly while an extraction is
\* in progress, and never more than one.
C30_LoadingIndicator ==
  /\ page.loaders <= 1
  /\ page.loaders >= 1 <=> InProgress # {}

====
